---- MODULE Spec2Model ----
(***************************************************************************)
(* The two example programs of the repository: examples/c-example/main.c   *)
(* and examples/cpp-example/main.cpp.  Each is one `main` that runs its    *)
(* statements in order, writes text and returns 0.                         *)
(*                                                                         *)
(* A behaviour is a series of launches of one of the two programs.  What   *)
(* the program text does not fix is an input chosen by the environment:    *)
(* the versions of the libraries the executable was built and linked       *)
(* with (fixed over all launches), and, per launch, the argument vector,   *)
(* the environment variables, the files present and the wall clock.        *)
(*                                                                         *)
(* Library calls are modelled by their documented contract:                *)
(*   printf / fmt::print / operator<<  append to the stdout stream and     *)
(*       return the number of bytes written;                               *)
(*   curl_version_info  returns the address of libcurl's static version    *)
(*       record (never a null pointer);                                    *)
(*   zlibVersion  returns the library's version string;                    *)
(*   spdlog::info  on the default logger writes                            *)
(*       "[<local time>] [info] <message>" to stdout;                      *)
(*   nlohmann::json  brace initialisation and dump(2).                     *)
(* The stdout stream is a sequence of lines; a line is the sequence of the *)
(* text pieces it was formatted from (format literal, substituted          *)
(* argument), and Text(line) is its bytes without the line terminator.     *)
(***************************************************************************)
EXTENDS Integers, Sequences, FiniteSets, TLC

\* Number of launches of the program in one behaviour.
MaxRuns == 2
\* Wall-clock instants (hours since midnight UTC) range over 0..MaxClock.
MaxClock == 2

VARIABLES
    prog,       \* which executable: "c" or "cpp"
    installed,  \* library name -> version string the executable sees
    argv,       \* command-line arguments of this launch
    env,        \* environment variables of this launch
    fs,         \* files present in the working directory
    clock,      \* wall clock at this launch
    pc,         \* source line of the next statement of main, or "exited"
    out,        \* lines written to standard output by this launch
    err,        \* lines written to standard error by this launch
    ver,        \* main.c: `ver`, <<>> before line 12, else <<record>>
    j,          \* main.cpp: `j`, <<>> while no object is alive, else <<json>>
    ret,        \* result of the last output call (never read by main)
    queried,    \* libraries whose version has been obtained by this launch
    trace,      \* the statements executed by this launch, in order
    exitCode,   \* exit status, -1 while running
    run,        \* number of this launch
    prev        \* <<>> or <<record of the previous launch>>

vars == <<prog, installed, argv, env, fs, clock, pc, out, err, ver, j, ret,
          queried, trace, exitCode, run, prev>>

----------------------------------------------------------------------------
(* Inputs *)

Programs == {"c", "cpp"}

\* The libraries each program includes and links.
Linked(p) ==
    IF p = "c" THEN {"OpenSSL", "libcurl", "zlib"}
               ELSE {"fmt", "nlohmann-json", "spdlog", "boost"}

\* Candidate version strings of each library.
Versions(lib) ==
    CASE lib = "OpenSSL"       -> {"OpenSSL 1.1.1w  11 Sep 2023", "OpenSSL 3.0.13 30 Jan 2024"}
      [] lib = "libcurl"       -> {"7.88.1", "8.5.0"}
      [] lib = "zlib"          -> {"1.2.13", "1.3.1"}
      [] lib = "fmt"           -> {"9.1.0", "10.2.1"}
      [] lib = "nlohmann-json" -> {"3.11.3"}
      [] lib = "spdlog"        -> {"1.12.0"}
      [] lib = "boost"         -> {"1.83.0"}

AllVersions == UNION {Versions(lib) : lib \in Linked("c") \cup Linked("cpp")}

Installations(p) ==
    {f \in [Linked(p) -> AllVersions] : \A lib \in Linked(p) : f[lib] \in Versions(lib)}

ArgVectors == {<<>>, <<"--version">>}

TimeZones == {"UTC", "Asia/Tokyo"}

Environments == [{"TZ"} -> TimeZones]

FileSystems == {{}, {"feluda.toml"}}

Clocks == 0..MaxClock

----------------------------------------------------------------------------
(* Text *)

RECURSIVE Text(_)
\* The bytes of a line: its pieces concatenated.
Text(line) == IF line = <<>> THEN "" ELSE Head(line) \o Text(Tail(line))

\* The bytes of a stream: the text of each line (each ends with "\n").
Bytes(stream) == [i \in 1..Len(stream) |-> Text(stream[i])]

\* What an output call returns: the bytes written, line terminator included.
Written(line) == Len(Text(line)) + 1

Entry(p) == IF p = "c" THEN "c7" ELSE "p11"

----------------------------------------------------------------------------
(* examples/c-example/main.c *)

CBannerText == "C example with transient dependencies"

\* The frame of a statement of main.c: nothing but the listed variables.
CFrame == UNCHANGED <<prog, installed, argv, env, fs, clock, err, j, exitCode, run, prev>>

\* CBanner with a usage line when arguments are given (argc > 1).
CBanner_Args ==
    /\ pc = "c7"
    /\ out' = IF argv = <<>> THEN Append(out, <<CBannerText>>)
                             ELSE Append(out, <<"usage: c-example">>)
    /\ ret' = Written(<<CBannerText>>)
    /\ pc' = "c10"
    /\ trace' = Append(trace, "c7")
    /\ UNCHANGED <<ver, queried>>
    /\ CFrame

\* line 7: printf("C example with transient dependencies\n");
CBanner ==
    /\ pc = "c7"
    /\ out' = Append(out, <<CBannerText>>)
    /\ ret' = Written(<<CBannerText>>)
    /\ pc' = "c10"
    /\ trace' = Append(trace, "c7")
    /\ UNCHANGED <<ver, queried>>
    /\ CFrame

\* line 10: printf("OpenSSL version: %s\n", OPENSSL_VERSION_TEXT);
COpenSSL ==
    /\ pc = "c10"
    /\ LET line == <<"OpenSSL version: ", installed["OpenSSL"]>>
       IN  /\ out' = Append(out, line)
           /\ ret' = Written(line)
    /\ queried' = queried \cup {"OpenSSL"}
    /\ pc' = "c12"
    /\ trace' = Append(trace, "c10")
    /\ UNCHANGED ver
    /\ CFrame

\* curl_version_info(CURLVERSION_NOW): the address of the library's record.
curl_version_info == <<[version |-> installed["libcurl"]]>>

\* line 12: curl_version_info_data *ver = curl_version_info(CURLVERSION_NOW);
CCurlInfo ==
    /\ pc = "c12"
    /\ ver' = curl_version_info
    /\ queried' = queried \cup {"libcurl"}
    /\ pc' = "c13"
    /\ trace' = Append(trace, "c12")
    /\ UNCHANGED <<out, ret>>
    /\ CFrame

\* CCurlPrint with the zlib line printed in its place.
CCurlPrint_Swapped ==
    /\ pc = "c13"
    /\ LET line == <<"zlib version: ", installed["zlib"]>>
       IN  /\ out' = Append(out, line)
           /\ ret' = Written(line)
    /\ pc' = "c15"
    /\ trace' = Append(trace, "c13")
    /\ UNCHANGED <<ver, queried>>
    /\ CFrame

\* line 13: printf("libcurl version: %s\n", ver->version);
CCurlPrint ==
    /\ pc = "c13"
    /\ LET line == <<"libcurl version: ", ver[1].version>>
       IN  /\ out' = Append(out, line)
           /\ ret' = Written(line)
    /\ pc' = "c15"
    /\ trace' = Append(trace, "c13")
    /\ UNCHANGED <<ver, queried>>
    /\ CFrame

zlibVersion == installed["zlib"]

\* CZlib with the run-time version checked against the header's
\* ZLIB_VERSION, and an error path when they differ.
CZlib_Checked ==
    /\ pc = "c15"
    /\ IF zlibVersion = "1.2.13"
       THEN /\ LET line == <<"zlib version: ", zlibVersion>>
               IN  /\ out' = Append(out, line)
                   /\ ret' = Written(line)
            /\ pc' = "c17"
            /\ UNCHANGED <<err, exitCode>>
       ELSE /\ err' = Append(err, <<"zlib version mismatch">>)
            /\ exitCode' = 1
            /\ pc' = "exited"
            /\ UNCHANGED <<out, ret>>
    /\ queried' = queried \cup {"zlib"}
    /\ trace' = Append(trace, "c15")
    /\ UNCHANGED <<prog, installed, argv, env, fs, clock, ver, j, run, prev>>

\* CZlib with `ver->version` passed again instead of zlibVersion().
CZlib_CurlAgain ==
    /\ pc = "c15"
    /\ LET line == <<"zlib version: ", ver[1].version>>
       IN  /\ out' = Append(out, line)
           /\ ret' = Written(line)
    /\ pc' = "c17"
    /\ trace' = Append(trace, "c15")
    /\ UNCHANGED <<ver, queried>>
    /\ CFrame

\* line 15: printf("zlib version: %s\n", zlibVersion());
CZlib ==
    /\ pc = "c15"
    /\ LET line == <<"zlib version: ", zlibVersion>>
       IN  /\ out' = Append(out, line)
           /\ ret' = Written(line)
    /\ queried' = queried \cup {"zlib"}
    /\ pc' = "c17"
    /\ trace' = Append(trace, "c15")
    /\ UNCHANGED ver
    /\ CFrame

\* CReturn with the last printf result returned instead of 0.
CReturn_Result ==
    /\ pc = "c17"
    /\ exitCode' = ret
    /\ ver' = <<>>
    /\ pc' = "exited"
    /\ trace' = Append(trace, "c17")
    /\ UNCHANGED <<prog, installed, argv, env, fs, clock, out, err, j, ret,
                   queried, run, prev>>

\* line 17: return 0;  `ver` goes out of scope and the process exits.
CReturn ==
    /\ pc = "c17"
    /\ exitCode' = 0
    /\ ver' = <<>>
    /\ pc' = "exited"
    /\ trace' = Append(trace, "c17")
    /\ UNCHANGED <<prog, installed, argv, env, fs, clock, out, err, j, ret,
                   queried, run, prev>>

----------------------------------------------------------------------------
(* nlohmann::json as main.cpp uses it *)

\* A braced initialiser: a string literal, or a list of initialisers.
Lit(s) == [k |-> "lit", v |-> s]

List(xs) == [k |-> "list", v |-> xs]

\* JInit with the last library name left out.
JInit_ThreeLibs ==
    List(<< List(<<Lit("message"), Lit("C++ example with transient dependencies")>>),
            List(<<Lit("libraries"),
                   List(<<Lit("fmt"), Lit("nlohmann-json"), Lit("spdlog")>>)>>) >>)

\* lines 15-18: the initialiser of `j`.
JInit ==
    List(<< List(<<Lit("message"), Lit("C++ example with transient dependencies")>>),
            List(<<Lit("libraries"),
                   List(<<Lit("fmt"), Lit("nlohmann-json"), Lit("spdlog"), Lit("boost")>>)>>) >>)

\* is_an_object without the object deduction: every list is an array.
is_an_object_Never(elems) == FALSE

\* The initializer-list rule: a list whose every element is a two-element
\* array with a string first is an object, any other list is an array.
is_an_object(elems) ==
    \A i \in 1..Len(elems) :
        /\ elems[i].t = "array"
        /\ Len(elems[i].v) = 2
        /\ elems[i].v[1].t = "string"

\* Object members are kept in a std::map, ordered by key (byte order).
KeyOrder == <<"libraries", "message">>

KeyRank(key) == CHOOSE i \in 1..Len(KeyOrder) : KeyOrder[i] = key

Members(elems) ==
    SortSeq([i \in 1..Len(elems) |-> <<elems[i].v[1].v, elems[i].v[2]>>],
            LAMBDA a, b : KeyRank(a[1]) < KeyRank(b[1]))

RECURSIVE basic_json(_)
\* json(initializer_list): the value a braced initialiser constructs.
basic_json(init) ==
    IF init.k = "lit"
    THEN [t |-> "string", v |-> init.v]
    ELSE LET elems == [i \in 1..Len(init.v) |-> basic_json(init.v[i])]
         IN  IF is_an_object(elems)
             THEN [t |-> "object", v |-> Members(elems)]
             ELSE [t |-> "array", v |-> elems]

RECURSIVE Spaces(_)
Spaces(n) == IF n = 0 THEN "" ELSE " " \o Spaces(n - 1)

Quote(s) == "\"" \o s \o "\""

\* `lines` with `prefix` before its first line and `suffix` after its last.
Wrap(lines, prefix, suffix) ==
    [i \in 1..Len(lines) |->
        (IF i = 1 THEN prefix ELSE "") \o lines[i] \o (IF i = Len(lines) THEN suffix ELSE "")]

RECURSIVE dump(_, _, _), dump_items(_, _, _, _)
\* dump(indent): the lines of `val` pretty-printed at depth `cur`; the first
\* line carries no indentation of its own.
dump(val, step, cur) ==
    IF val.t = "string" THEN <<Quote(val.v)>>
    ELSE IF Len(val.v) = 0 THEN <<IF val.t = "array" THEN "[]" ELSE "{}">>
    ELSE <<IF val.t = "array" THEN "[" ELSE "{">>
         \o dump_items(val, step, cur + step, 1)
         \o <<Spaces(cur) \o (IF val.t = "array" THEN "]" ELSE "}")>>

\* Elements i.. of an array or object, one per line group, comma separated.
dump_items(val, step, cur, i) ==
    IF i > Len(val.v) THEN <<>>
    ELSE LET comma == IF i < Len(val.v) THEN "," ELSE ""
             item  == IF val.t = "array"
                      THEN Wrap(dump(val.v[i], step, cur), Spaces(cur), comma)
                      ELSE Wrap(dump(val.v[i][2], step, cur),
                                Spaces(cur) \o Quote(val.v[i][1]) \o ": ", comma)
         IN  item \o dump_items(val, step, cur, i + 1)

----------------------------------------------------------------------------
(* spdlog's default logger as main.cpp uses it *)

UtcOffset(tz) == IF tz = "Asia/Tokyo" THEN 9 ELSE 0

TwoDigits(n) == IF n < 10 THEN "0" \o ToString(n) ELSE ToString(n)

\* The time stamp of a log line: the wall clock rendered as local time.
Stamp(t, e) == "1970-01-01 " \o TwoDigits((t + UtcOffset(e["TZ"])) % 24) \o ":00:00.000"

\* The line the default logger formats for info(msg).
LogLine(msg) == <<"[", Stamp(clock, env), "] [", "info", "] ", msg>>

----------------------------------------------------------------------------
(* examples/cpp-example/main.cpp *)

CppBannerText == "C++ example with transient dependencies"

CppFrame == UNCHANGED <<prog, installed, argv, env, fs, clock, ver, ret, exitCode, run, prev>>

\* CppBanner with the time of the run printed in front of the banner.
CppBanner_Stamped ==
    /\ pc = "p11"
    /\ out' = Append(out, <<ToString(clock), " ", CppBannerText>>)
    /\ pc' = "p13"
    /\ trace' = Append(trace, "p11")
    /\ UNCHANGED <<err, j, queried>>
    /\ CppFrame

\* line 11: fmt::print("C++ example with transient dependencies\n");
CppBanner ==
    /\ pc = "p11"
    /\ out' = Append(out, <<CppBannerText>>)
    /\ pc' = "p13"
    /\ trace' = Append(trace, "p11")
    /\ UNCHANGED <<err, j, queried>>
    /\ CppFrame

\* CppLog through a logger whose sink is standard error.
CppLog_ToStderr ==
    /\ pc = "p13"
    /\ err' = Append(err, LogLine("Using spdlog for logging"))
    /\ pc' = "p15"
    /\ trace' = Append(trace, "p13")
    /\ UNCHANGED <<out, j, queried>>
    /\ CppFrame

\* line 13: spdlog::info("Using spdlog for logging");
CppLog ==
    /\ pc = "p13"
    /\ out' = Append(out, LogLine("Using spdlog for logging"))
    /\ pc' = "p15"
    /\ trace' = Append(trace, "p13")
    /\ UNCHANGED <<err, j, queried>>
    /\ CppFrame

\* lines 15-18: json j = { ... };
CppJson ==
    /\ pc = "p15"
    /\ j' = <<basic_json(JInit)>>
    /\ pc' = "p20"
    /\ trace' = Append(trace, "p15")
    /\ UNCHANGED <<out, err, queried>>
    /\ CppFrame

\* CppDump with the serialized text written twice.
CppDump_Twice ==
    /\ pc = "p20"
    /\ LET text == dump(j[1], 2, 0)
           block == [i \in 1..Len(text) |-> <<text[i]>>]
       IN  out' = out \o block \o block
    /\ pc' = "p22"
    /\ trace' = Append(trace, "p20")
    /\ UNCHANGED <<err, j, queried>>
    /\ CppFrame

\* line 20: std::cout << j.dump(2) << std::endl;
CppDump ==
    /\ pc = "p20"
    /\ LET text == dump(j[1], 2, 0)
       IN  out' = out \o [i \in 1..Len(text) |-> <<text[i]>>]
    /\ pc' = "p22"
    /\ trace' = Append(trace, "p20")
    /\ UNCHANGED <<err, j, queried>>
    /\ CppFrame

\* line 22: return 0;  `j` is destroyed and the process exits.
CppReturn ==
    /\ pc = "p22"
    /\ exitCode' = 0
    /\ j' = <<>>
    /\ pc' = "exited"
    /\ trace' = Append(trace, "p22")
    /\ UNCHANGED <<prog, installed, argv, env, fs, clock, out, err, ver, ret,
                   queried, run, prev>>

----------------------------------------------------------------------------
(* Launching *)

\* What is kept of a launch that has exited.
Finished ==
    [argv |-> argv, env |-> env, fs |-> fs, clock |-> clock, out |-> out,
     err |-> err, trace |-> trace, exitCode |-> exitCode]

\* Process start: main is entered with nothing written and no locals alive.
Init ==
    /\ prog \in Programs
    /\ installed \in Installations(prog)
    /\ argv \in ArgVectors
    /\ env \in Environments
    /\ fs \in FileSystems
    /\ clock \in Clocks
    /\ pc = Entry(prog)
    /\ out = <<>>
    /\ err = <<>>
    /\ ver = <<>>
    /\ j = <<>>
    /\ ret = 0
    /\ queried = {}
    /\ trace = <<>>
    /\ exitCode = -1
    /\ run = 1
    /\ prev = <<>>

\* The same executable is started again, later, with inputs of its own.
Relaunch ==
    /\ pc = "exited"
    /\ run < MaxRuns
    /\ prev' = <<Finished>>
    /\ argv' \in ArgVectors
    /\ env' \in Environments
    /\ fs' \in FileSystems
    /\ clock' \in clock..MaxClock
    /\ pc' = Entry(prog)
    /\ out' = <<>>
    /\ err' = <<>>
    /\ ver' = <<>>
    /\ j' = <<>>
    /\ ret' = 0
    /\ queried' = {}
    /\ trace' = <<>>
    /\ exitCode' = -1
    /\ run' = run + 1
    /\ UNCHANGED <<prog, installed>>

\* A statement of main: the program's own steps.
Step ==
    \/ CBanner
    \/ COpenSSL
    \/ CCurlInfo
    \/ CCurlPrint
    \/ CZlib
    \/ CReturn
    \/ CppBanner
    \/ CppLog
    \/ CppJson
    \/ CppDump
    \/ CppReturn

Next ==
    \/ CBanner
    \/ COpenSSL
    \/ CCurlInfo
    \/ CCurlPrint
    \/ CZlib
    \/ CReturn
    \/ CppBanner
    \/ CppLog
    \/ CppJson
    \/ CppDump
    \/ CppReturn
    \/ Relaunch

Spec == Init /\ [][Next]_vars

\* A started process runs: main is one thread that is always scheduled.
FairSpec == Spec /\ WF_vars(Step)

----------------------------------------------------------------------------
(* Properties *)

\* A line contains `s`: `s` is one of the pieces it was formatted from.
Contains(line, s) == \E i \in 1..Len(line) : line[i] = s

IsPrefix(a, b) == Len(a) <= Len(b) /\ \A i \in 1..Len(a) : a[i] = b[i]

Exited == pc = "exited"

\* The statements of each main, in source order.
Order(p) ==
    IF p = "c" THEN <<"c7", "c10", "c12", "c13", "c15", "c17">>
               ELSE <<"p11", "p13", "p15", "p20", "p22">>

\* The pretty-printed record, as the text on standard output must read.
ExpectedBlock ==
    << "{",
       "  \"libraries\": [",
       "    \"fmt\",",
       "    \"nlohmann-json\",",
       "    \"spdlog\",",
       "    \"boost\"",
       "  ],",
       "  \"message\": \"C++ example with transient dependencies\"",
       "}" >>

\* The places of standard output where the serialized record starts.
BlockStarts ==
    {b \in 1..Len(out) :
        /\ b + Len(ExpectedBlock) - 1 <= Len(out)
        /\ \A k \in 1..Len(ExpectedBlock) : Text(out[b + k - 1]) = ExpectedBlock[k]}

\* C1: in every run of the C example standard output is, at every moment, a
\* prefix of: the banner line, a line with the OpenSSL version text, a line
\* with the libcurl version string, a line with the zlib version string; and
\* on exit all four lines are there.
C1_COutputInOrder ==
    prog = "c" =>
        /\ Len(out) <= 4
        /\ Len(out) >= 1 => Text(out[1]) = "C example with transient dependencies"
        /\ Len(out) >= 2 => Contains(out[2], installed["OpenSSL"])
        /\ Len(out) >= 3 => Contains(out[3], installed["libcurl"])
        /\ Len(out) >= 4 => Contains(out[4], installed["zlib"])
        /\ Exited => Len(out) = 4

C1_Witness ==
    /\ prog = "c"
    /\ Exited
    /\ Len(out) = 4
    /\ Text(out[4]) = "zlib version: 1.3.1"

\* C2: every launch of either program runs to its exit, and the exit status
\* is 0 whenever a launch has exited.
C2_TerminatesWithZero ==
    /\ [](Exited => exitCode = 0)
    /\ (~Exited) ~> (Exited /\ exitCode = 0)

C2_Witness ==
    /\ Exited
    /\ exitCode = 0
    /\ run = 2
    /\ Len(trace) = Len(Order(prog))

\* C3: when the C++ example has exited, standard output holds the banner
\* line, a log line carrying the spdlog message, and the pretty-printed
\* block with the keys "message" and "libraries", the latter listing exactly
\* fmt, nlohmann-json, spdlog and boost.
C3_CppOutput ==
    prog = "cpp" /\ Exited =>
        /\ \E i \in 1..Len(out) : Text(out[i]) = "C++ example with transient dependencies"
        /\ \E i \in 1..Len(out) :
              /\ Contains(out[i], "info")
              /\ Contains(out[i], "Using spdlog for logging")
        /\ BlockStarts # {}

C3_Witness ==
    /\ prog = "cpp"
    /\ Exited
    /\ Len(out) = 2 + Len(ExpectedBlock)
    /\ Text(out[Len(out)]) = "}"

\* The previous launch had the same arguments, environment and files.
SameInputs == prev[1].argv = argv /\ prev[1].env = env /\ prev[1].fs = fs

\* Standard output of this launch and of the previous one agree on every
\* line but line `n`.
SameButLine(n) ==
    /\ Len(out) = Len(prev[1].out)
    /\ \A i \in 1..Len(out) : i # n => Text(out[i]) = Text(prev[1].out[i])

\* C4 as stated: a second run with the same library versions (and the same
\* inputs) writes byte-identical standard output.
C4_Original ==
    Exited /\ prev # <<>> /\ SameInputs => Bytes(out) = Bytes(prev[1].out)

\* C4: two runs of the C example write byte-identical standard output; two
\* runs of the C++ example write the same lines except for the spdlog log
\* line (its second line), of which the message is the same and the prefix
\* is the logger's own.
C4_SameOutputButLogPrefix ==
    Exited /\ prev # <<>> =>
        /\ prog = "c" => Bytes(out) = Bytes(prev[1].out)
        /\ prog = "cpp" =>
              /\ SameButLine(2)
              /\ out[2][Len(out[2])] = prev[1].out[2][Len(prev[1].out[2])]

C4_Witness ==
    /\ prog = "cpp"
    /\ Exited
    /\ prev # <<>>
    /\ SameInputs
    /\ clock # prev[1].clock
    /\ Bytes(out) # Bytes(prev[1].out)

\* C5 as stated: two runs at the same time that differ only in arguments,
\* environment variables or files write the same lines and exit alike.
C5_Original ==
    Exited /\ prev # <<>> /\ clock = prev[1].clock =>
        /\ Bytes(out) = Bytes(prev[1].out)
        /\ exitCode = prev[1].exitCode

\* C5: for two runs at the same time, the exit status is the same; the C
\* example's output is the same whatever the arguments, environment and
\* files; the C++ example's output is the same but for the log line, and the
\* same altogether when the environment variables are the same.
C5_InputsOnlyReachLogLine ==
    Exited /\ prev # <<>> /\ clock = prev[1].clock =>
        /\ exitCode = prev[1].exitCode
        /\ prog = "c" => Bytes(out) = Bytes(prev[1].out)
        /\ prog = "cpp" => SameButLine(2)
        /\ env = prev[1].env => Bytes(out) = Bytes(prev[1].out)

C5_Witness ==
    /\ prog = "cpp"
    /\ Exited
    /\ prev # <<>>
    /\ clock = prev[1].clock
    /\ argv # prev[1].argv
    /\ env # prev[1].env
    /\ Text(out[2]) # Text(prev[1].out[2])

\* C6: a statement of either main only appends to standard output: standard
\* error, the files, the arguments and the environment stay as they are; the
\* C++ record is built once (line 15), never changed while alive, and no
\* local outlives the exit.
C6_OnlyAppendsToStdout ==
    [][run' = run =>
          /\ IsPrefix(out, out')
          /\ err' = err
          /\ fs' = fs
          /\ argv' = argv
          /\ env' = env
          /\ (j' # j => \/ j = <<>> /\ pc = "p15"
                        \/ j' = <<>> /\ pc' = "exited")
          /\ (pc' = "exited" => j' = <<>> /\ ver' = <<>>)]_vars

C6_Witness ==
    /\ prog = "cpp"
    /\ pc = "p22"
    /\ j # <<>>
    /\ Len(out) = 2 + Len(ExpectedBlock)
    /\ err = <<>>

\* C7: neither main has an error path: whatever the library calls returned,
\* the next statement is the next one in source order, nothing is reported
\* on standard error, line 13 dereferences the pointer line 12 stored, and
\* the exit status is 0.
C7_NoErrorPath ==
    /\ Len(trace) <= Len(Order(prog))
    /\ pc = IF Len(trace) < Len(Order(prog)) THEN Order(prog)[Len(trace) + 1] ELSE "exited"
    /\ err = <<>>
    /\ exitCode = IF Exited THEN 0 ELSE -1
    /\ pc = "c13" => ver # <<>>

C7_Witness ==
    /\ prog = "c"
    /\ pc = "c17"
    /\ installed["zlib"] = "1.3.1"
    /\ ret = 20
    /\ exitCode = -1

\* A line of the pretty-printed list names `lib`.
NameListed(lib) ==
    \E i \in 1..Len(out) :
        Text(out[i]) \in {Spaces(4) \o Quote(lib), Spaces(4) \o Quote(lib) \o ","}

VersionPrinted(lib) == \E i \in 1..Len(out) : Contains(out[i], installed[lib])

\* C8 as stated: a run of either program obtains the version of every
\* library it links and writes that version string to standard output.
C8_Original ==
    Exited => \A lib \in Linked(prog) : lib \in queried /\ VersionPrinted(lib)

\* C8: a run of the C example obtains and prints the version string of each
\* of OpenSSL, libcurl and zlib; a run of the C++ example obtains no version
\* and prints no version string, it only lists the four library names.
C8_VersionsOnlyInC ==
    Exited =>
        /\ prog = "c" => \A lib \in Linked(prog) : lib \in queried /\ VersionPrinted(lib)
        /\ prog = "cpp" =>
              /\ queried = {}
              /\ \A lib \in Linked(prog) : ~VersionPrinted(lib) /\ NameListed(lib)

C8_Witness ==
    /\ prog = "cpp"
    /\ Exited
    /\ queried = {}
    /\ NameListed("boost")

\* C9: the statements of a run are executed once each, in source order; in
\* the C++ example the banner is line 1 of the output and is there once line
\* 11 has run, the log line is line 2 once line 13 has run, the record
\* follows once line 20 has run, and nothing is written after the return.
C9_SequentialOnce ==
    /\ [](/\ IsPrefix(trace, Order(prog))
          /\ prog = "cpp" =>
                /\ Len(out) = CASE Len(trace) = 0 -> 0
                                [] Len(trace) = 1 -> 1
                                [] Len(trace) \in {2, 3} -> 2
                                [] OTHER -> 2 + Len(ExpectedBlock)
                /\ Len(out) >= 1 => Text(out[1]) = CppBannerText
                /\ Len(out) >= 2 => Contains(out[2], "Using spdlog for logging")
                /\ Len(out) >= 3 => BlockStarts = {3})
    /\ [][Exited /\ run' = run => out' = out]_vars

C9_Witness ==
    /\ prog = "cpp"
    /\ Exited
    /\ trace = <<"p11", "p13", "p15", "p20", "p22">>
    /\ BlockStarts = {3}

\* C10: when line 20 serializes it, the record is an object with exactly the
\* keys "message" and "libraries"; "message" is the text of the banner line
\* already printed; "libraries" is an array of the four strings fmt,
\* nlohmann-json, spdlog, boost in that order; and the block is on standard
\* output exactly once afterwards.
C10_RecordShape ==
    /\ pc = "p20" =>
          /\ j # <<>>
          /\ j[1].t = "object"
          /\ {j[1].v[i][1] : i \in 1..Len(j[1].v)} = {"message", "libraries"}
          /\ Len(j[1].v) = 2
          /\ \A i \in 1..Len(j[1].v) :
                /\ j[1].v[i][1] = "message" =>
                      /\ j[1].v[i][2].t = "string"
                      /\ j[1].v[i][2].v = Text(out[1])
                /\ j[1].v[i][1] = "libraries" =>
                      /\ j[1].v[i][2].t = "array"
                      /\ [k \in 1..Len(j[1].v[i][2].v) |-> j[1].v[i][2].v[k].t]
                            = <<"string", "string", "string", "string">>
                      /\ [k \in 1..Len(j[1].v[i][2].v) |-> j[1].v[i][2].v[k].v]
                            = <<"fmt", "nlohmann-json", "spdlog", "boost">>
    /\ prog = "cpp" /\ pc \in {"p22", "exited"} => Cardinality(BlockStarts) = 1

C10_Witness ==
    /\ pc = "p20"
    /\ j # <<>>
    /\ j[1].t = "object"
    /\ Text(out[1]) = "C++ example with transient dependencies"

====
